---------------------------- MODULE Spec2Model ----------------------------
(***************************************************************************)
(* A model of the vector3d crate (src/src/lib.rs): the generic value type  *)
(* Vector3d<T>, its component-wise operators, dot and cross products,      *)
(* summation, indexed access and Display formatting.                       *)
(*                                                                         *)
(* The scalar type T is modelled as a signed two's-complement integer of   *)
(* Bits bits.  Rust builds such arithmetic in one of two ways: with        *)
(* overflow checks (an overflowing +, -, * or unary - panics) or without   *)
(* (the result wraps modulo 2^Bits).  The variable overflow_checks is the  *)
(* build's choice.  Division by zero, and MinInt / -1, panic in both.      *)
(*                                                                         *)
(* A computation's outcome is a sequence: <<>> when it panicked (nothing   *)
(* was produced), <<r>> when it returned r.                                *)
(***************************************************************************)
EXTENDS Integers, Sequences, FiniteSets, TLC

VARIABLES
    overflow_checks, \* the build panics on integer overflow (else wraps)
    op,              \* the operation performed last, with its arguments
    v,               \* the vector accessed through Index / IndexMut
    shadow,          \* history: per axis, the value constructed or last written
    wrote,           \* history: the axes written so far
    got,             \* outcome of the last indexed read: <<>> or <<value>>
    panicked,        \* the computation was aborted by a panic
    a, b, c,         \* operand vectors
    out, out2,       \* outcomes of the last operation(s)
    items,           \* the sequence handed to sum
    fmtr,            \* the Formatter: fill, align, width, precision
    kind,            \* the scalar type being displayed: "int" or "float"
    str,             \* the parenthesised string fmt built
    written          \* what fmt wrote to the formatter's buffer

vars == <<overflow_checks, op, v, shadow, wrote, got, panicked, a, b, c,
          out, out2, items, fmtr, kind, str, written>>

---------------------------------------------------------------------------
(* Bounds of the model. *)

\* width in bits of the modelled integer scalar type
Bits == 8
\* indices 0..MaxIndex are tried for indexed access (3 and above are invalid)
MaxIndex == 5
\* longest sequence handed to sum
MaxLen == 3
\* largest minimum field width requested of fmt
MaxWidth == 20
\* largest precision requested of fmt
MaxDecimals == 2

---------------------------------------------------------------------------
(* Outcomes and the scalar type. *)

Panic == <<>>
Ok(r) == <<r>>
IsOk(r) == r # Panic

Pow2(n) == 2^n
MinInt == -Pow2(Bits - 1)
MaxInt == Pow2(Bits - 1) - 1
InRange(n) == MinInt <= n /\ n <= MaxInt
Wrap(n) == ((n - MinInt) % Pow2(Bits)) + MinInt

\* the result of an integer +, -, * or unary - whose exact value is n
Arith(n) ==
    IF InRange(n) THEN Ok(n)
    ELSE IF overflow_checks THEN Panic
    ELSE Ok(Wrap(n))

s_add(x, y) == IF IsOk(x) /\ IsOk(y) THEN Arith(x[1] + y[1]) ELSE Panic
s_sub(x, y) == IF IsOk(x) /\ IsOk(y) THEN Arith(x[1] - y[1]) ELSE Panic
s_mul(x, y) == IF IsOk(x) /\ IsOk(y) THEN Arith(x[1] * y[1]) ELSE Panic
s_neg(x) == IF IsOk(x) THEN Arith(0 - x[1]) ELSE Panic

Abs(n) == IF n < 0 THEN 0 - n ELSE n
\* integer division truncates toward zero
TruncDiv(n, d) ==
    IF (n < 0) = (d < 0) THEN Abs(n) \div Abs(d) ELSE 0 - (Abs(n) \div Abs(d))
s_div(x, y) ==
    IF ~(IsOk(x) /\ IsOk(y)) THEN Panic
    ELSE IF y[1] = 0 THEN Panic
    ELSE IF x[1] = MinInt /\ y[1] = -1 THEN Panic
    ELSE Ok(TruncDiv(x[1], y[1]))

\* the sum of an empty iterator of scalars
s_sum_empty == Ok(0)

---------------------------------------------------------------------------
(* Vector3d<T>. *)

Vector3d(S) == [x : S, y : S, z : S]

\* fault injection for C9: a failed component is replaced by zero instead of
\* aborting the construction
new_partial(rx, ry, rz) ==
    Ok([x |-> IF IsOk(rx) THEN rx[1] ELSE 0,
        y |-> IF IsOk(ry) THEN ry[1] ELSE 0,
        z |-> IF IsOk(rz) THEN rz[1] ELSE 0])

\* Vector3d::new applied to three evaluated arguments: a panic while an
\* argument is evaluated unwinds before any vector is built
new(rx, ry, rz) ==
    IF IsOk(rx) /\ IsOk(ry) /\ IsOk(rz)
    THEN Ok([x |-> rx[1], y |-> ry[1], z |-> rz[1]])
    ELSE Panic

default == [x |-> 0, y |-> 0, z |-> 0]

\* fault injection for C6: the z component subtracts
add_copy_paste(self, rhs) ==
    IF IsOk(self) /\ IsOk(rhs)
    THEN new(s_add(Ok(self[1].x), Ok(rhs[1].x)),
             s_add(Ok(self[1].y), Ok(rhs[1].y)),
             s_sub(Ok(self[1].z), Ok(rhs[1].z)))
    ELSE Panic

\* Add, Sub, Neg: component-wise
add(self, rhs) ==
    IF IsOk(self) /\ IsOk(rhs)
    THEN new(s_add(Ok(self[1].x), Ok(rhs[1].x)),
             s_add(Ok(self[1].y), Ok(rhs[1].y)),
             s_add(Ok(self[1].z), Ok(rhs[1].z)))
    ELSE Panic

sub(self, rhs) ==
    IF IsOk(self) /\ IsOk(rhs)
    THEN new(s_sub(Ok(self[1].x), Ok(rhs[1].x)),
             s_sub(Ok(self[1].y), Ok(rhs[1].y)),
             s_sub(Ok(self[1].z), Ok(rhs[1].z)))
    ELSE Panic

\* fault injection for C7: the z component is not negated
neg_partial(self) ==
    IF IsOk(self)
    THEN new(s_neg(Ok(self[1].x)), s_neg(Ok(self[1].y)), Ok(self[1].z))
    ELSE Panic

neg(self) ==
    IF IsOk(self)
    THEN new(s_neg(Ok(self[1].x)), s_neg(Ok(self[1].y)), s_neg(Ok(self[1].z)))
    ELSE Panic

\* Mul<S>: each component times the scalar rhs
mul(self, rhs) ==
    IF IsOk(self) /\ IsOk(rhs)
    THEN new(s_mul(Ok(self[1].x), rhs), s_mul(Ok(self[1].y), rhs),
             s_mul(Ok(self[1].z), rhs))
    ELSE Panic

\* Div<S>: each component divided by the scalar rhs
div(self, rhs) ==
    IF IsOk(self) /\ IsOk(rhs)
    THEN new(s_div(Ok(self[1].x), rhs), s_div(Ok(self[1].y), rhs),
             s_div(Ok(self[1].z), rhs))
    ELSE Panic

\* fault injection for C5: the z term multiplies self.z by itself
dot_typo(self, rhs) ==
    IF IsOk(self) /\ IsOk(rhs)
    THEN s_add(s_add(s_mul(Ok(rhs[1].x), Ok(self[1].x)),
                     s_mul(Ok(rhs[1].y), Ok(self[1].y))),
               s_mul(Ok(self[1].z), Ok(self[1].z)))
    ELSE Panic

\* dot: rhs.x * self.x + rhs.y * self.y + rhs.z * self.z, a scalar
dot(self, rhs) ==
    IF IsOk(self) /\ IsOk(rhs)
    THEN s_add(s_add(s_mul(Ok(rhs[1].x), Ok(self[1].x)),
                     s_mul(Ok(rhs[1].y), Ok(self[1].y))),
               s_mul(Ok(rhs[1].z), Ok(self[1].z)))
    ELSE Panic

\* fault injection for C3: the y component has its two terms exchanged
cross_flipped(self, rhs) ==
    IF IsOk(self) /\ IsOk(rhs)
    THEN new(s_sub(s_mul(Ok(rhs[1].z), Ok(self[1].y)),
                   s_mul(Ok(rhs[1].y), Ok(self[1].z))),
             s_sub(s_mul(Ok(rhs[1].z), Ok(self[1].x)),
                   s_mul(Ok(rhs[1].x), Ok(self[1].z))),
             s_sub(s_mul(Ok(rhs[1].y), Ok(self[1].x)),
                   s_mul(Ok(rhs[1].x), Ok(self[1].y))))
    ELSE Panic

cross(self, rhs) ==
    IF IsOk(self) /\ IsOk(rhs)
    THEN new(s_sub(s_mul(Ok(rhs[1].z), Ok(self[1].y)),
                   s_mul(Ok(rhs[1].y), Ok(self[1].z))),
             s_sub(s_mul(Ok(rhs[1].x), Ok(self[1].z)),
                   s_mul(Ok(rhs[1].z), Ok(self[1].x))),
             s_sub(s_mul(Ok(rhs[1].y), Ok(self[1].x)),
                   s_mul(Ok(rhs[1].x), Ok(self[1].y))))
    ELSE Panic

\* fault injection for C2: an invalid index wraps onto an axis
index_wrapping(self, i) ==
    CASE i % 3 = 0 -> Ok(self.x)
      [] i % 3 = 1 -> Ok(self.y)
      [] i % 3 = 2 -> Ok(self.z)

\* Index<usize>: a reference to the component, or a panic
index(self, i) ==
    CASE i = 0 -> Ok(self.x)
      [] i = 1 -> Ok(self.y)
      [] i = 2 -> Ok(self.z)
      [] OTHER -> Panic

\* fault injection for C1: indices 1 and 2 reach each other's component
index_mut_swapped(self, i, k) ==
    CASE i = 0 -> Ok([self EXCEPT !.x = k])
      [] i = 1 -> Ok([self EXCEPT !.z = k])
      [] i = 2 -> Ok([self EXCEPT !.y = k])
      [] OTHER -> Panic

\* IndexMut<usize> followed by the assignment of k through the reference:
\* the vector after v[i] = k, or a panic before anything is assigned
index_mut(self, i, k) ==
    CASE i = 0 -> Ok([self EXCEPT !.x = k])
      [] i = 1 -> Ok([self EXCEPT !.y = k])
      [] i = 2 -> Ok([self EXCEPT !.z = k])
      [] OTHER -> Panic

---------------------------------------------------------------------------
(* Inputs. *)

\* scalar values the operands are drawn from: the extremes and the units
Samples == {MinInt, -1, 0, 1, MaxInt}
Vecs == Vector3d(Samples)
NoOp == [name |-> "none", arg |-> 0]

\* the variables a specification does not use keep these values
IdleIndex ==
    /\ v = default /\ shadow = <<0, 0, 0>> /\ wrote = {} /\ got = Panic
    /\ panicked = FALSE
IdleArith == a = default /\ b = default /\ c = default
IdleSum == items = <<>>
IdleFmt ==
    /\ fmtr = [fill |-> " ", align |-> "none", width |-> <<>>, precision |-> <<>>]
    /\ kind = "int" /\ str = <<>> /\ written = <<>>
IdleOut == out = Panic /\ out2 = Panic

---------------------------------------------------------------------------
(* Indexed access: v[i] and v[i] = k. *)

InitIndex ==
    /\ overflow_checks \in BOOLEAN
    /\ op = NoOp
    /\ v \in Vecs
    /\ shadow = <<v.x, v.y, v.z>>
    /\ wrote = {}
    /\ got = Panic
    /\ panicked = FALSE
    /\ IdleArith /\ IdleSum /\ IdleFmt /\ IdleOut

\* let r = v[i];
IndexRead(i) ==
    /\ ~panicked
    /\ op' = [name |-> "read", arg |-> i]
    /\ got' = index(v, i)
    /\ panicked' = ~IsOk(index(v, i))
    /\ UNCHANGED <<overflow_checks, v, shadow, wrote, a, b, c, out, out2,
                   items, fmtr, kind, str, written>>

\* v[i] = k;
IndexWrite(i, k) ==
    /\ ~panicked
    /\ op' = [name |-> "write", arg |-> i]
    /\ got' = Panic
    /\ IF IsOk(index_mut(v, i, k))
       THEN /\ v' = index_mut(v, i, k)[1]
            /\ shadow' = [shadow EXCEPT ![i + 1] = k]
            /\ wrote' = wrote \cup {i}
            /\ panicked' = FALSE
       ELSE /\ panicked' = TRUE
            /\ UNCHANGED <<v, shadow, wrote>>
    /\ UNCHANGED <<overflow_checks, a, b, c, out, out2, items, fmtr, kind,
                   str, written>>

NextIndex ==
    \/ \E i \in 0..MaxIndex : IndexRead(i)
    \/ \E i \in 0..MaxIndex, k \in Samples : IndexWrite(i, k)

SpecIndex == InitIndex /\ [][NextIndex]_vars

---------------------------------------------------------------------------
(* The operators applied once to drawn operands.  Each action is one call  *)
(* of the operator on the vectors a and b (and a scalar k).                *)

Idle == op = NoOp
ArithFrame ==
    UNCHANGED <<overflow_checks, v, shadow, wrote, got, panicked, a, b, c,
                items, fmtr, kind, str, written>>

InitOps ==
    /\ overflow_checks \in BOOLEAN
    /\ op = NoOp
    /\ a \in Vecs /\ b \in Vecs /\ c = default
    /\ IdleIndex /\ IdleSum /\ IdleFmt /\ IdleOut

\* a + b
Add ==
    /\ Idle
    /\ op' = [name |-> "add", arg |-> 0]
    /\ out' = add(Ok(a), Ok(b))
    /\ out2' = Panic
    /\ ArithFrame

\* a - b
Sub ==
    /\ Idle
    /\ op' = [name |-> "sub", arg |-> 0]
    /\ out' = sub(Ok(a), Ok(b))
    /\ out2' = Panic
    /\ ArithFrame

\* -a
Neg ==
    /\ Idle
    /\ op' = [name |-> "neg", arg |-> 0]
    /\ out' = neg(Ok(a))
    /\ out2' = Panic
    /\ ArithFrame

\* a * k
Mul(k) ==
    /\ Idle
    /\ op' = [name |-> "mul", arg |-> k]
    /\ out' = mul(Ok(a), Ok(k))
    /\ out2' = Panic
    /\ ArithFrame

\* a / k
Div(k) ==
    /\ Idle
    /\ op' = [name |-> "div", arg |-> k]
    /\ out' = div(Ok(a), Ok(k))
    /\ out2' = Panic
    /\ ArithFrame

\* a.cross(b), and b.cross(a) in a second, independent run
Cross ==
    /\ Idle
    /\ op' = [name |-> "cross", arg |-> 0]
    /\ out' = cross(Ok(a), Ok(b))
    /\ out2' = cross(Ok(b), Ok(a))
    /\ ArithFrame

NextOps ==
    \/ Add
    \/ Sub
    \/ Neg
    \/ \E k \in Samples : Mul(k)
    \/ \E k \in Samples : Div(k)
    \/ Cross

SpecOps == InitOps /\ [][NextOps]_vars

---------------------------------------------------------------------------
(* Additive inverses: a - a and a + (-a). *)

InitInverse ==
    /\ overflow_checks \in BOOLEAN
    /\ op = NoOp
    /\ a \in Vecs /\ b = default /\ c = default
    /\ IdleIndex /\ IdleSum /\ IdleFmt /\ IdleOut

\* a - a
SubSelf ==
    /\ Idle
    /\ op' = [name |-> "sub_self", arg |-> 0]
    /\ out' = sub(Ok(a), Ok(a))
    /\ out2' = Panic
    /\ ArithFrame

\* a + (-a)
AddNeg ==
    /\ Idle
    /\ op' = [name |-> "add_neg", arg |-> 0]
    /\ out' = add(Ok(a), neg(Ok(a)))
    /\ out2' = neg(Ok(a))
    /\ ArithFrame

NextInverse ==
    \/ SubSelf
    \/ AddNeg

SpecInverse == InitInverse /\ [][NextInverse]_vars

---------------------------------------------------------------------------
(* Laws over three operands. *)

LawSamples == {MinInt, -1, MaxInt}

InitLaws ==
    /\ overflow_checks \in BOOLEAN
    /\ op = NoOp
    /\ a \in Vector3d(LawSamples)
    /\ b \in Vector3d(LawSamples)
    /\ c \in Vector3d(LawSamples)
    /\ IdleIndex /\ IdleSum /\ IdleFmt /\ IdleOut

\* (a + b) + c and a + (b + c)
AddAssoc ==
    /\ Idle
    /\ op' = [name |-> "assoc", arg |-> 0]
    /\ out' = add(add(Ok(a), Ok(b)), Ok(c))
    /\ out2' = add(Ok(a), add(Ok(b), Ok(c)))
    /\ ArithFrame

\* a + b and b + a
AddComm ==
    /\ Idle
    /\ op' = [name |-> "comm", arg |-> 0]
    /\ out' = add(Ok(a), Ok(b))
    /\ out2' = add(Ok(b), Ok(a))
    /\ ArithFrame

\* (a + b).dot(c) and a.dot(c) + b.dot(c)
DotBilinear ==
    /\ Idle
    /\ op' = [name |-> "bilinear", arg |-> 0]
    /\ out' = dot(add(Ok(a), Ok(b)), Ok(c))
    /\ out2' = s_add(dot(Ok(a), Ok(c)), dot(Ok(b), Ok(c)))
    /\ ArithFrame

NextLaws ==
    \/ AddAssoc
    \/ AddComm
    \/ DotBilinear

SpecLaws == InitLaws /\ [][NextLaws]_vars

---------------------------------------------------------------------------
(* Summation: Sum<Vector3d<T>> and Sum<&Vector3d<T>>. *)

RECURSIVE fold(_, _)
\* Iterator::fold with |a, b| a + b
fold(acc, rest) ==
    IF rest = <<>> THEN acc
    ELSE fold(add(acc, Ok(Head(rest))), Tail(rest))

\* fault injection for C4: the first element is taken off the iterator and
\* then forgotten, the fold starting from the zero vector
sum_drops_first(iter) ==
    IF iter # <<>>
    THEN fold(new(s_sum_empty, s_sum_empty, s_sum_empty), Tail(iter))
    ELSE new(s_sum_empty, s_sum_empty, s_sum_empty)

\* sum over owned vectors
sum(iter) ==
    IF iter # <<>>
    THEN fold(Ok(Head(iter)), Tail(iter))
    ELSE new(s_sum_empty, s_sum_empty, s_sum_empty)

\* derive(Clone): a new vector from copies of the three fields
clone(self) == [x |-> self.x, y |-> self.y, z |-> self.z]

\* [..].iter(): references into the array, as positions
iter_refs(array) == [i \in 1..Len(array) |-> i]

\* Iterator::cloned over references into array
cloned(refs, array) == [i \in 1..Len(refs) |-> clone(array[refs[i]])]

\* sum over references: iter.cloned().sum()
sum_ref(refs, array) == sum(cloned(refs, array))

\* the vectors the summed sequences are built from
SumVecs ==
    { default,
      [x |-> MaxInt, y |-> 1, z |-> -1],
      [x |-> 1, y |-> MinInt, z |-> 0],
      [x |-> -1, y |-> MaxInt, z |-> MinInt] }

InitSum ==
    /\ overflow_checks \in BOOLEAN
    /\ op = NoOp
    /\ items = <<>>
    /\ IdleIndex /\ IdleArith /\ IdleFmt /\ IdleOut

\* the caller builds the array to be summed
Push(p) ==
    /\ Idle
    /\ Len(items) < MaxLen
    /\ items' = Append(items, p)
    /\ UNCHANGED <<overflow_checks, op, v, shadow, wrote, got, panicked,
                   a, b, c, out, out2, fmtr, kind, str, written>>

\* items.iter().cloned().sum()
SumOwned ==
    /\ Idle
    /\ op' = [name |-> "sum", arg |-> Len(items)]
    /\ out' = sum(items)
    /\ UNCHANGED <<overflow_checks, v, shadow, wrote, got, panicked,
                   a, b, c, out2, items, fmtr, kind, str, written>>

\* items.iter().sum(), in a second, independent run
SumRefs ==
    /\ op.name = "sum"
    /\ op' = [name |-> "sum_ref", arg |-> Len(items)]
    /\ out2' = sum_ref(iter_refs(items), items)
    /\ UNCHANGED <<overflow_checks, v, shadow, wrote, got, panicked,
                   a, b, c, out, items, fmtr, kind, str, written>>

NextSum ==
    \/ \E p \in SumVecs : Push(p)
    \/ SumOwned
    \/ SumRefs

SpecSum == InitSum /\ [][NextSum]_vars

---------------------------------------------------------------------------
(* Display.  A string is a sequence of one-character strings.              *)

None == <<>>
Some(n) == <<n>>

DigitChars == <<"0", "1", "2", "3", "4", "5", "6", "7", "8", "9">>

RECURSIVE Digits(_)
Digits(n) ==
    IF n < 10 THEN <<DigitChars[n + 1]>>
    ELSE Digits(n \div 10) \o <<DigitChars[(n % 10) + 1]>>

Repeat(ch, n) == [i \in 1..n |-> ch]

\* Display of one component.  The scalar is an integer ("int") or a float
\* holding an integral value ("float"): an integer ignores the precision, a
\* float prints that many fraction digits, and no fraction without one.
display(t, x, precision) ==
    LET sign == IF x < 0 THEN <<"-">> ELSE <<>>
        whole == sign \o Digits(Abs(x))
    IN  IF t = "float" /\ precision # None /\ precision[1] > 0
        THEN whole \o <<".">> \o Repeat("0", precision[1])
        ELSE whole

\* format!("({}, {}, {})", ..) and format!("({:.d$}, {:.d$}, {:.d$})", ..)
rendered(self, t, precision) ==
    <<"(">> \o display(t, self.x, precision) \o <<",", " ">>
            \o display(t, self.y, precision) \o <<",", " ">>
            \o display(t, self.z, precision) \o <<")">>

\* Formatter::pad: truncate to the precision, then pad to the width with
\* the fill character; an unspecified alignment pads on the right
pad(s, fill, align, width, precision) ==
    LET t == IF precision # None /\ precision[1] < Len(s)
             THEN SubSeq(s, 1, precision[1]) ELSE s
        p == IF width = None \/ width[1] <= Len(t) THEN 0
             ELSE width[1] - Len(t)
        pre == CASE align = "right" -> p
                 [] align = "center" -> p \div 2
                 [] OTHER -> 0
        post == CASE align = "right" -> 0
                  [] align = "center" -> (p + 1) \div 2
                  [] OTHER -> p
    IN  Repeat(fill, pre) \o t \o Repeat(fill, post)

\* fault injection for C8: an unspecified alignment falls back to Right
precision_branch_right(s, f) ==
    IF f.width # None
    THEN LET al == IF f.align = "none" THEN "right" ELSE f.align
         IN  pad(s, " ", al, f.width, None)
    ELSE s

\* the branch taken with a precision: write!(f, "{:<width$}", s) and its
\* siblings format s under a fresh specification: blank fill, the given
\* alignment and width
precision_branch(s, f) ==
    IF f.width # None
    THEN LET al == IF f.align = "none" THEN "left" ELSE f.align
         IN  pad(s, " ", al, f.width, None)
    ELSE s

\* the branch taken without a precision: f.pad(&string) under the caller's
\* specification
plain_branch(s, f) == pad(s, f.fill, f.align, f.width, f.precision)

fmt(self, t, f) ==
    IF f.precision # None
    THEN precision_branch(rendered(self, t, f.precision), f)
    ELSE plain_branch(rendered(self, t, None), f)

Formatters ==
    [fill : {" ", "*"},
     align : {"none", "left", "right", "center"},
     width : {None} \cup {Some(n) : n \in 0..MaxWidth},
     precision : {None} \cup {Some(n) : n \in 0..MaxDecimals}]

FmtVecs ==
    { default,
      [x |-> 1, y |-> 10, z |-> -1],
      [x |-> MinInt, y |-> -1, z |-> 0] }

InitFmt ==
    /\ overflow_checks \in BOOLEAN
    /\ op = NoOp
    /\ a \in FmtVecs /\ b = default /\ c = default
    /\ kind \in {"int", "float"}
    /\ fmtr \in Formatters
    /\ str = <<>> /\ written = <<>>
    /\ IdleIndex /\ IdleSum /\ IdleOut

\* format!("{:...}", a) under the specification fmtr
Fmt ==
    /\ Idle
    /\ op' = [name |-> "fmt", arg |-> 0]
    /\ str' = rendered(a, kind, fmtr.precision)
    /\ written' = fmt(a, kind, fmtr)
    /\ UNCHANGED <<overflow_checks, v, shadow, wrote, got, panicked,
                   a, b, c, out, out2, items, fmtr, kind>>

NextFmt == Fmt

SpecFmt == InitFmt /\ [][NextFmt]_vars

---------------------------------------------------------------------------
(* Properties of indexed access (checked under SpecIndex). *)

Axis(self, i) == CASE i = 0 -> self.x [] i = 1 -> self.y [] i = 2 -> self.z

\* C1: reading v[i] returns x, y, z for i = 0, 1, 2; after any sequence of
\* index writes every axis holds the value last written to it (or the
\* constructed value if it was never written), so a write to one axis leaves
\* the other two components unchanged.
C1_IndexReadWrite ==
    /\ <<v.x, v.y, v.z>> = shadow
    /\ (op.name = "read" /\ op.arg \in 0..2) =>
           /\ got = Ok(Axis(v, op.arg))
           /\ got = Ok(shadow[op.arg + 1])
    /\ (op.name \in {"read", "write"} /\ op.arg \in 0..2) => ~panicked

\* C1 witness: a read of an axis written earlier, while another axis still
\* holds its constructed value.
C1_Witness ==
    /\ op.name = "read" /\ op.arg = 1 /\ IsOk(got)
    /\ wrote = {1}
    /\ got = Ok(MaxInt) /\ v.x = MinInt /\ v.z = -1

\* C2: for every index >= 3 an indexed read or write aborts: no value is
\* returned, the index is not clamped or wrapped onto an axis, and a failed
\* write modifies none of x, y, z.
C2_InvalidIndexAborts ==
    [][(op'.name \in {"read", "write"} /\ op'.arg >= 3 /\ ~panicked) =>
           (panicked' /\ got' = Panic /\ v' = v)]_vars

\* C2 witness: a write through index 3 or above has aborted the computation.
C2_Witness == panicked /\ op.name = "write" /\ op.arg >= 3 /\ wrote # {}

---------------------------------------------------------------------------
(* Properties of the operators (checked under SpecOps).  The expected      *)
(* values are stated in exact integer arithmetic.                          *)

Overflows(n) == overflow_checks /\ ~InRange(n)
VecOps == {"add", "sub", "neg", "mul", "div"}

\* whether the scalar operation of the vector operation fails on component x
CompFails(name, x, y) ==
    CASE name = "add" -> Overflows(x + y)
      [] name = "sub" -> Overflows(x - y)
      [] name = "neg" -> Overflows(0 - x)
      [] name = "mul" -> Overflows(x * y)
      [] name = "div" -> y = 0 \/ (x = MinInt /\ y = -1)

\* the value of the scalar operation where it does not fail
CompValue(name, x, y) ==
    CASE name = "add" -> Wrap(x + y)
      [] name = "sub" -> Wrap(x - y)
      [] name = "neg" -> Wrap(0 - x)
      [] name = "mul" -> Wrap(x * y)
      [] name = "div" -> TruncDiv(x, y)

\* the second operand of the scalar operation on axis i
Second(i) == IF op.name \in {"mul", "div"} THEN op.arg ELSE Axis(b, i)
Failing == {i \in 0..2 : CompFails(op.name, Axis(a, i), Second(i))}

\* C9: add, sub, neg, scalar multiply and scalar divide are all-or-nothing:
\* the vector operation fails exactly when at least one of its three scalar
\* operations fails, otherwise it returns all three component results, and
\* no vector holding only some of the components is produced.
C9_AllOrNothing ==
    op.name \in VecOps =>
        /\ (out = Panic) <=> (Failing # {})
        /\ Failing = {} =>
               out = Ok([x |-> CompValue(op.name, a.x, Second(0)),
                         y |-> CompValue(op.name, a.y, Second(1)),
                         z |-> CompValue(op.name, a.z, Second(2))])

\* C9 witness: an operation failed on some components only, and no vector
\* was produced.
C9_Witness ==
    /\ op.name = "div"
    /\ Failing # {} /\ Failing # 0..2
    /\ out = Panic

\* the cross product in exact integer arithmetic, reduced to the scalar type
CrossExact(p, q) ==
    [x |-> Wrap(q.z * p.y - q.y * p.z),
     y |-> Wrap(q.x * p.z - q.z * p.x),
     z |-> Wrap(q.y * p.x - q.x * p.y)]
ConventionalExact(p, q) ==
    [x |-> Wrap(p.y * q.z - p.z * q.y),
     y |-> Wrap(p.z * q.x - p.x * q.z),
     z |-> Wrap(p.x * q.y - p.y * q.x)]

\* C3 as stated: cross(self, rhs) is (rhs.z*self.y - rhs.y*self.z, ...), it
\* equals the conventional self x rhs, and swapping the operands negates the
\* result.
C3_AsStated ==
    op.name = "cross" =>
        /\ IsOk(out) => out = Ok(CrossExact(a, b))
        /\ IsOk(out) => out = Ok(ConventionalExact(a, b))
        /\ out2 = neg(out)

\* C3 amended: cross(self, rhs) is (rhs.z*self.y - rhs.y*self.z, ...) and
\* equals the conventional self x rhs; swapping the operands negates the
\* result whenever integer overflow wraps or cross(self, rhs) did not panic.
C3_CrossAmended ==
    op.name = "cross" =>
        /\ IsOk(out) => out = Ok(CrossExact(a, b))
        /\ IsOk(out) => out = Ok(ConventionalExact(a, b))
        /\ ~overflow_checks => IsOk(out)
        /\ (IsOk(out) \/ ~overflow_checks) => out2 = neg(out)

\* C3 witness: a cross product with a non-zero result, and its swap.
C3_Witness ==
    /\ op.name = "cross" /\ IsOk(out) /\ IsOk(out2)
    /\ out[1].x # 0 /\ out[1].y # 0 /\ out[1].z # 0
    /\ out2[1].x = 0 - out[1].x

---------------------------------------------------------------------------
(* Additive inverses (checked under SpecInverse). *)

\* C7 as stated: sub(a, a) and add(a, neg(a)) are the zero vector for every a.
C7_AsStated ==
    op.name \in {"sub_self", "add_neg"} => out = Ok(default)

\* C7 amended: sub(a, a) is the zero vector for every a; add(a, neg(a)) is
\* the zero vector unless the build checks overflow and a component of a is
\* the least value of the integer type, where neg panics.
C7_InverseAmended ==
    /\ op.name = "sub_self" => out = Ok(default)
    /\ op.name = "add_neg" =>
           IF overflow_checks /\ MinInt \in {a.x, a.y, a.z}
           THEN out = Panic /\ out2 = Panic
           ELSE out = Ok(default)

\* C7 witness: a + (-a) computed for a vector with three non-zero components.
C7_Witness ==
    /\ op.name = "add_neg" /\ out = Ok(default)
    /\ a.x = MaxInt /\ a.y = -1 /\ a.z = 1

---------------------------------------------------------------------------
(* Laws over three operands (checked under SpecLaws). *)

\* C6 as stated: add(add(a,b),c) = add(a,add(b,c)) and add(a,b) = add(b,a)
\* for all a, b, c.
C6_AsStated ==
    op.name \in {"assoc", "comm"} => out = out2

\* C6 amended: add(a,b) = add(b,a) for all a, b; add(add(a,b),c) =
\* add(a,add(b,c)) whenever integer overflow wraps or neither side panics.
C6_AddAmended ==
    /\ op.name = "comm" => out = out2
    /\ op.name = "assoc" =>
           ((~overflow_checks \/ (IsOk(out) /\ IsOk(out2))) =>
                /\ out = out2
                /\ out = Ok([x |-> Wrap(a.x + b.x + c.x),
                             y |-> Wrap(a.y + b.y + c.y),
                             z |-> Wrap(a.z + b.z + c.z)]))

\* C6 witness: both groupings computed without overflow on mixed components.
C6_Witness ==
    /\ op.name = "assoc" /\ overflow_checks /\ IsOk(out) /\ IsOk(out2)
    /\ a.x = MaxInt /\ b.x = MinInt /\ c.x = MaxInt /\ a.y # b.y

\* C5 as stated: dot(add(a,b), c) = dot(a,c) + dot(b,c) for all a, b, c.
C5_AsStated ==
    op.name = "bilinear" => out = out2

\* C5 amended: dot(add(a,b), c) = dot(a,c) + dot(b,c) whenever integer
\* overflow wraps or neither side panics; the value is
\* c.x*(a.x+b.x) + c.y*(a.y+b.y) + c.z*(a.z+b.z).
C5_DotAmended ==
    op.name = "bilinear" =>
        ((~overflow_checks \/ (IsOk(out) /\ IsOk(out2))) =>
             /\ out = out2
             /\ out = Ok(Wrap(c.x * (a.x + b.x) + c.y * (a.y + b.y)
                              + c.z * (a.z + b.z))))

\* C5 witness: both sides computed without overflow, with a non-zero value.
C5_Witness ==
    /\ op.name = "bilinear" /\ overflow_checks /\ IsOk(out) /\ IsOk(out2)
    /\ out[1] # 0 /\ a # b

---------------------------------------------------------------------------
(* Summation (checked under SpecSum). *)

RECURSIVE PrefixSum(_, _)
\* the exact sum of axis i over the first n items
PrefixSum(n, i) == IF n = 0 THEN 0 ELSE PrefixSum(n - 1, i) + Axis(items[n], i)

\* a left fold overflows when some proper prefix sum leaves the scalar range
PrefixOverflow ==
    \E n \in 2..Len(items), i \in 0..2 : Overflows(PrefixSum(n, i))

\* C4: sum is the left fold of add starting from the first element: the
\* empty sequence gives the zero vector, <<v>> gives v, <<v1, v2>> gives
\* add(v1, v2); the sum over references gives the same result as the sum
\* over owned values.
C4_SumIsLeftFold ==
    /\ op.name \in {"sum", "sum_ref"} =>
           /\ Len(items) = 0 => out = Ok(default)
           /\ Len(items) = 1 => out = Ok(items[1])
           /\ Len(items) = 2 => out = add(Ok(items[1]), Ok(items[2]))
           /\ Len(items) >= 2 =>
                  out = add(sum(SubSeq(items, 1, Len(items) - 1)),
                            Ok(items[Len(items)]))
           /\ (out = Panic) <=> PrefixOverflow
           /\ IsOk(out) =>
                  out = Ok([x |-> Wrap(PrefixSum(Len(items), 0)),
                            y |-> Wrap(PrefixSum(Len(items), 1)),
                            z |-> Wrap(PrefixSum(Len(items), 2))])
    /\ op.name = "sum_ref" => out2 = out

\* C4 witness: two different vectors summed both ways, without overflow.
C4_Witness ==
    /\ op.name = "sum_ref" /\ Len(items) = 2 /\ IsOk(out) /\ IsOk(out2)
    /\ items[1] # items[2] /\ out[1] # items[1] /\ out[1] # items[2]

---------------------------------------------------------------------------
(* Display (checked under SpecFmt). *)

\* C8: fmt renders s = "(x, y, z)" and applies the minimum width W to the
\* whole of s: the output is s when W <= len(s), otherwise s padded to
\* exactly W characters, on the right for left alignment (the default), on
\* the left for right alignment, on both sides (the left share being half
\* the padding, rounded down) for center alignment; with and without a
\* precision.
C8_DisplayPadding ==
    op.name = "fmt" =>
        LET n == Len(str)
            W == IF fmtr.width = None THEN 0 ELSE fmtr.width[1]
            off == CASE fmtr.align = "right" -> W - n
                     [] fmtr.align = "center" -> (W - n) \div 2
                     [] OTHER -> 0
        IN  /\ str[1] = "(" /\ str[n] = ")"
            /\ Cardinality({i \in 1..n : str[i] = ","}) = 2
            /\ W <= n => written = str
            /\ W > n =>
                   /\ Len(written) = W
                   /\ SubSeq(written, off + 1, off + n) = str
                   /\ \A i \in 1..W :
                          (i <= off \/ i > off + n) =>
                              written[i] \in {" ", fmtr.fill}

\* C8 witness: the crate's own test, format!("{:^20.2}", v) for the float
\* vector (0, 0, 0) is " (0.00, 0.00, 0.00) ".
C8_Witness ==
    /\ op.name = "fmt" /\ kind = "float" /\ a = default
    /\ fmtr.width = Some(20) /\ fmtr.align = "center"
    /\ fmtr.precision = Some(2)
    /\ written = <<" ", "(", "0", ".", "0", "0", ",", " ", "0", ".", "0",
                   "0", ",", " ", "0", ".", "0", "0", ")", " ">>

\* C10: for the same string, width, alignment and fill character, the
\* precision branch of fmt writes what the no-precision branch would write.
C10_BranchesPadAlike ==
    (op.name = "fmt" /\ fmtr.precision # None) =>
        written = plain_branch(str, [fmtr EXCEPT !.precision = None])

===========================================================================
